---- MODULE Spec2Model ----
(***************************************************************************)
(* Model of pkg/client/client.go of zitadel-go: the option pattern         *)
(* (WithAuth, WithGRPCDialOptions), client.New, newConnection, the         *)
(* aggregate Client with its 14 service accessors, and the per-call        *)
(* credential provider (cred) that newConnection attaches to the single    *)
(* shared gRPC connection.                                                 *)
(***************************************************************************)
EXTENDS Naturals, Sequences, FiniteSets, TLC

VARIABLES
    zitadel,   \* the *zitadel.Zitadel endpoint handed to New
    opts,      \* the ...Option list handed to New
    phase,     \* "init" before New was called, then "built" or "failed"
    client,    \* the *Client New returned (nil on failure)
    err,       \* the error New returned (nil on success)
    calls,     \* the external calls New made, in order
    conns,     \* the connections DialContext opened
    tsCur,     \* the token the token source currently holds (its refresh count)
    tsCalls,   \* how many times the token source's Token() was invoked
    rpc,       \* the remote calls issued on the client's stubs
    wire       \* what the transport transmitted: connection security + metadata

vars == <<zitadel, opts, phase, client, err, calls, conns, tsCur, tsCalls, rpc, wire>>

----------------------------------------------------------------------------
\* Bounds of the model.
MaxOpts == 3        \* options in one New call (construction specification)
MaxDialArgs == 1    \* arguments of one WithGRPCDialOptions call
MaxCallOpts == 1    \* options in one New call (remote-call specification)
MaxCalls == 2       \* concurrent remote calls on one client
MaxRefresh == 1     \* refreshes of the token source

\* Go's nil (pointer, interface, error, map).
nil == [nil |-> TRUE]

Initializers == {"i1", "i2"}
DialOptionNames == {"A", "B"}
Domains == {"example.com"}
Ports == {"443"}

RECURSIVE SeqsUpTo(_, _)
SeqsUpTo(S, n) ==
    IF n = 0 THEN {<<>>}
    ELSE LET shorter == SeqsUpTo(S, n - 1)
         IN shorter \cup {Append(s, x) : s \in {t \in shorter : Len(t) = n - 1}, x \in S}

----------------------------------------------------------------------------
\* The endpoint (pkg/zitadel).
Endpoints == [domain : Domains, port : Ports, tls : BOOLEAN]

Domain(z) == z.domain
IsTLS(z) == z.tls
Host(z) == <<z.domain, ":", z.port>>
Origin(z) == <<IF z.tls THEN "https" ELSE "http", "://", z.domain, ":", z.port>>

----------------------------------------------------------------------------
\* clientOptions and the two options.
\* Mutant: the zero value carries a default initializer.
clientOptionsDefaultAuth == [initTokenSource |-> [id |-> "i1"], grpcDialOptions |-> <<>>]

clientOptions == [initTokenSource |-> nil, grpcDialOptions |-> <<>>]

CustomDialOption(n) == [kind |-> "custom", name |-> n]

\* Mutant: an initializer already set is kept (first write wins).
WithAuthKeepFirst(c, initTokenSource) ==
    IF c.initTokenSource = nil THEN [c EXCEPT !.initTokenSource = initTokenSource]
    ELSE c

WithAuth(c, initTokenSource) ==
    [c EXCEPT !.initTokenSource = initTokenSource]

\* Mutant: the dial options are replaced instead of appended.
WithGRPCDialOptionsOverwrite(c, dopts) ==
    [c EXCEPT !.grpcDialOptions = dopts]

WithGRPCDialOptions(c, dopts) ==
    [c EXCEPT !.grpcDialOptions = c.grpcDialOptions \o dopts]

\* An Option is a closure over its argument; o(&options) runs its body.
Option(o, c) ==
    IF o.kind = "WithAuth" THEN WithAuth(c, o.initTokenSource)
    ELSE WithGRPCDialOptions(c, o.opts)

AuthOptions == [kind : {"WithAuth"}, initTokenSource : [id : Initializers]]
DialOptions ==
    [kind : {"WithGRPCDialOptions"},
     opts : SeqsUpTo({CustomDialOption(n) : n \in DialOptionNames}, MaxDialArgs)]
Options == AuthOptions \cup DialOptions

\* for _, o := range opts { o(&options) }
RECURSIVE ApplyOptions(_, _)
ApplyOptions(options, os) ==
    IF os = <<>> THEN options
    ELSE ApplyOptions(Option(Head(os), options), Tail(os))

----------------------------------------------------------------------------
\* The collaborators New calls.  ok is the outcome the environment picks.

\* A TokenSourceInitializer, invoked with the issuer.
InitErr(init) == [error |-> "initTokenSource", of |-> init.id]
initTokenSource(init, issuer, ok) ==
    IF ok THEN [source |-> [init |-> init.id, issuer |-> issuer], err |-> nil]
    ELSE [source |-> nil, err |-> InitErr(init)]

\* transportCredentials(domain, tls)
CredsErr == [error |-> "transportCredentials"]
transportCredentials(domain, tls, ok) ==
    IF ok THEN [creds |-> [secure |-> tls, serverName |-> domain], err |-> nil]
    ELSE [creds |-> nil, err |-> CredsErr]

\* oauth2.TokenSource.Token()
TokenErr == [error |-> "token"]
Token(source, cur, ok) ==
    IF ok THEN [token |-> [accessToken |-> <<source.init, cur>>, type |-> "Bearer"],
                err |-> nil]
    ELSE [token |-> nil, err |-> TokenErr]

----------------------------------------------------------------------------
\* The credential provider: &cred{tls: ..., tokenSource: ...}.
\* Mutant: the tokenSource field is left unset.
credNoSource(tls, tokenSource, addr) ==
    [id |-> addr, tls |-> tls, tokenSource |-> nil]

\* Mutant: the provider always demands transport security.
credAlwaysSecure(tls, tokenSource, addr) ==
    [id |-> addr, tls |-> TRUE, tokenSource |-> tokenSource]

cred(tls, tokenSource, addr) ==
    [id |-> addr, tls |-> tls, tokenSource |-> tokenSource]

EmptyMD == <<>>
AuthMD(token) == [k \in {"authorization"} |-> <<token.type, " ", token.accessToken>>]

GetRequestMetadata(c, tok) ==
    IF c.tokenSource = nil THEN [md |-> EmptyMD, err |-> nil]
    ELSE IF tok.err # nil THEN [md |-> nil, err |-> tok.err]
    ELSE [md |-> AuthMD(tok.token), err |-> nil]

RequiresTransportSecurity(c) == c.tls

----------------------------------------------------------------------------
\* grpc: the dial options and DialContext.
WithTransportCredentialsOpt(creds) == [kind |-> "WithTransportCredentials", creds |-> creds]
WithPerRPCCredentialsOpt(c) == [kind |-> "WithPerRPCCredentials", creds |-> c]

DialErr == [error |-> "dial"]
SecurityErr == [error |-> "credentials require transport level security"]

\* The dial applies the options in order: the last transport credentials win,
\* per-RPC credentials accumulate.  It refuses per-RPC credentials that
\* require transport security on an insecure transport.
DialContext(target, dialOptions, env) ==
    LET tcs == SelectSeq(dialOptions, LAMBDA o : o.kind = "WithTransportCredentials")
        prs == SelectSeq(dialOptions, LAMBDA o : o.kind = "WithPerRPCCredentials")
        tc == tcs[Len(tcs)].creds
        insecure == ~tc.secure
    IN IF \E i \in 1..Len(prs) : RequiresTransportSecurity(prs[i].creds) /\ insecure
       THEN [conn |-> nil, err |-> SecurityErr]
       ELSE IF ~env.dialOk THEN [conn |-> nil, err |-> DialErr]
       ELSE [conn |-> [id |-> env.addr, target |-> target, secure |-> tc.secure,
                       perRPC |-> [i \in 1..Len(prs) |-> prs[i].creds]],
             err |-> nil]

----------------------------------------------------------------------------
\* Mutant: a failing transportCredentials falls back to insecure credentials
\* and the dial goes ahead.
newConnectionFallback(z, tokenSource, dopts, env) ==
    LET tc == transportCredentials(Domain(z), IsTLS(z), env.credsOk)
        callTC == [fn |-> "transportCredentials", args |-> <<Domain(z), IsTLS(z)>>,
                   err |-> tc.err]
        creds == IF tc.err # nil THEN [secure |-> FALSE, serverName |-> Domain(z)]
                 ELSE tc.creds
        dialOptions ==
            <<WithTransportCredentialsOpt(creds),
              WithPerRPCCredentialsOpt(cred(IsTLS(z), tokenSource, env.addr))>>
            \o dopts
        d == DialContext(Host(z), dialOptions, env)
    IN [conn |-> d.conn, err |-> d.err,
        calls |-> <<callTC,
                    [fn |-> "DialContext", args |-> <<Host(z), dialOptions>>,
                     err |-> d.err]>>]

\* Mutant: the endpoint's TLS flag is ignored, the connection is always plain.
newConnectionInsecure(z, tokenSource, dopts, env) ==
    LET tc == transportCredentials(Domain(z), FALSE, env.credsOk)
        callTC == [fn |-> "transportCredentials", args |-> <<Domain(z), FALSE>>,
                   err |-> tc.err]
    IN IF tc.err # nil
       THEN [conn |-> nil, err |-> tc.err, calls |-> <<callTC>>]
       ELSE LET dialOptions ==
                    <<WithTransportCredentialsOpt(tc.creds),
                      WithPerRPCCredentialsOpt(cred(FALSE, tokenSource, env.addr))>>
                    \o dopts
                d == DialContext(Host(z), dialOptions, env)
            IN [conn |-> d.conn, err |-> d.err,
                calls |-> <<callTC,
                            [fn |-> "DialContext", args |-> <<Host(z), dialOptions>>,
                             err |-> d.err]>>]

\* newConnection
newConnection(z, tokenSource, dopts, env) ==
    LET tc == transportCredentials(Domain(z), IsTLS(z), env.credsOk)
        callTC == [fn |-> "transportCredentials", args |-> <<Domain(z), IsTLS(z)>>,
                   err |-> tc.err]
    IN IF tc.err # nil
       THEN [conn |-> nil, err |-> tc.err, calls |-> <<callTC>>]
       ELSE LET dialOptions ==
                    <<WithTransportCredentialsOpt(tc.creds),
                      WithPerRPCCredentialsOpt(cred(IsTLS(z), tokenSource, env.addr))>>
                    \o dopts
                d == DialContext(Host(z), dialOptions, env)
            IN [conn |-> d.conn, err |-> d.err,
                calls |-> <<callTC,
                            [fn |-> "DialContext", args |-> <<Host(z), dialOptions>>,
                             err |-> d.err]>>]

----------------------------------------------------------------------------
\* The Client and its stubs.
Services ==
    {"systemService", "adminService", "managementService", "userService",
     "userServiceV2", "authService", "settingsService", "settingsServiceV2",
     "sessionService", "sessionServiceV2", "organizationService",
     "organizationServiceV2", "oidcService", "oidcServiceV2"}

\* A generated NewXServiceClient(conn): a stub holding the connection.
NewServiceClient(service, conn) == [service |-> service, cc |-> conn.id]

\* Mutant: one stub is bound to a connection of its own.
ClientOwnConn(conn) ==
    [s \in Services |->
        NewServiceClient(s, IF s = "oidcServiceV2" THEN [conn EXCEPT !.id = conn.id + 1]
                            ELSE conn)]

Client(conn) == [s \in Services |-> NewServiceClient(s, conn)]

SystemService(c) == c.systemService
AdminService(c) == c.adminService
ManagementService(c) == c.managementService
AuthService(c) == c.authService
UserService(c) == c.userService
UserServiceV2(c) == c.userServiceV2
SettingsService(c) == c.settingsService
SettingsServiceV2(c) == c.settingsServiceV2
SessionService(c) == c.sessionService
SessionServiceV2(c) == c.sessionServiceV2
OIDCService(c) == c.oidcService
OIDCServiceV2(c) == c.oidcServiceV2
OrganizationService(c) == c.organizationService
OrganizationServiceV2(c) == c.organizationServiceV2

\* The 14 accessors, by the field each one reads.
Accessors(c) ==
    [systemService |-> SystemService(c),
     adminService |-> AdminService(c),
     managementService |-> ManagementService(c),
     authService |-> AuthService(c),
     userService |-> UserService(c),
     userServiceV2 |-> UserServiceV2(c),
     settingsService |-> SettingsService(c),
     settingsServiceV2 |-> SettingsServiceV2(c),
     sessionService |-> SessionService(c),
     sessionServiceV2 |-> SessionServiceV2(c),
     oidcService |-> OIDCService(c),
     oidcServiceV2 |-> OIDCServiceV2(c),
     organizationService |-> OrganizationService(c),
     organizationServiceV2 |-> OrganizationServiceV2(c)]

----------------------------------------------------------------------------
\* Mutant: the initializer's error is dropped and construction goes on
\* without a token source.
NewIgnoreInitErr(z, os, env) ==
    LET options == ApplyOptions(clientOptions, os)
        configured == options.initTokenSource # nil
        ts == IF configured
              THEN initTokenSource(options.initTokenSource, Origin(z), env.initOk)
              ELSE [source |-> nil, err |-> nil]
        callInit == IF configured
                    THEN <<[fn |-> "initTokenSource",
                            args |-> <<options.initTokenSource.id, Origin(z)>>,
                            err |-> ts.err]>>
                    ELSE <<>>
        c == newConnection(z, ts.source, options.grpcDialOptions, env)
    IN IF c.err # nil
       THEN [client |-> nil, err |-> c.err, calls |-> callInit \o c.calls, conns |-> {}]
       ELSE [client |-> Client(c.conn), err |-> nil,
             calls |-> callInit \o c.calls, conns |-> {c.conn}]

\* New
New(z, os, env) ==
    LET options == ApplyOptions(clientOptions, os)
        configured == options.initTokenSource # nil
        ts == IF configured
              THEN initTokenSource(options.initTokenSource, Origin(z), env.initOk)
              ELSE [source |-> nil, err |-> nil]
        callInit == IF configured
                    THEN <<[fn |-> "initTokenSource",
                            args |-> <<options.initTokenSource.id, Origin(z)>>,
                            err |-> ts.err]>>
                    ELSE <<>>
    IN IF ts.err # nil
       THEN [client |-> nil, err |-> ts.err, calls |-> callInit, conns |-> {}]
       ELSE LET c == newConnection(z, ts.source, options.grpcDialOptions, env)
            IN IF c.err # nil
               THEN [client |-> nil, err |-> c.err,
                     calls |-> callInit \o c.calls, conns |-> {}]
               ELSE [client |-> Client(c.conn), err |-> nil,
                     calls |-> callInit \o c.calls, conns |-> {c.conn}]

Envs == [initOk : BOOLEAN, credsOk : BOOLEAN, dialOk : BOOLEAN, addr : {1}]

----------------------------------------------------------------------------
\* State machine.
CallIds == 1..MaxCalls
IdleCall == [st |-> "idle", cc |-> 0, issued |-> nil, md |-> nil, err |-> nil]

InitWith(n) ==
    /\ zitadel \in Endpoints
    /\ opts \in SeqsUpTo(Options, n)
    /\ phase = "init"
    /\ client = nil
    /\ err = nil
    /\ calls = <<>>
    /\ conns = {}
    /\ tsCur = 0
    /\ tsCalls = 0
    /\ rpc = [c \in CallIds |-> IdleCall]
    /\ wire = {}

Init == InitWith(MaxCallOpts)
InitBuild == InitWith(MaxOpts)

\* The caller runs client.New(ctx, zitadel, opts...).
Build ==
    /\ phase = "init"
    /\ \E env \in Envs :
         LET r == New(zitadel, opts, env)
         IN /\ client' = r.client
            /\ err' = r.err
            /\ calls' = r.calls
            /\ conns' = r.conns
            /\ phase' = IF r.err = nil THEN "built" ELSE "failed"
    /\ UNCHANGED <<zitadel, opts, tsCur, tsCalls, rpc, wire>>

\* The connection a stub is bound to.
ConnOf(id) == CHOOSE cn \in conns : cn.id = id

\* The caller invokes a method of one of the client's stubs.
Invoke(c) ==
    /\ phase = "built"
    /\ rpc[c].st = "idle"
    /\ \E s \in Services :
         rpc' = [rpc EXCEPT ![c] = [@ EXCEPT !.st = "started", !.cc = Accessors(client)[s].cc]]
    /\ UNCHANGED <<zitadel, opts, phase, client, err, calls, conns, tsCur, tsCalls, wire>>

\* The transport asks the connection's per-RPC credentials for the metadata.
GetMetadata(c) ==
    /\ rpc[c].st = "started"
    /\ LET cr == ConnOf(rpc[c].cc).perRPC[1]
           invoked == cr.tokenSource # nil
       IN \E ok \in (IF invoked THEN BOOLEAN ELSE {TRUE}) :
            LET tok == IF invoked THEN Token(cr.tokenSource, tsCur, ok)
                       ELSE [token |-> nil, err |-> nil]
                r == GetRequestMetadata(cr, tok)
            IN /\ rpc' = [rpc EXCEPT ![c] =
                            [@ EXCEPT !.st = IF r.err = nil THEN "authorized" ELSE "failed",
                                      !.issued = tok, !.md = r.md, !.err = r.err]]
               /\ tsCalls' = IF invoked THEN tsCalls + 1 ELSE tsCalls
    /\ UNCHANGED <<zitadel, opts, phase, client, err, calls, conns, tsCur, wire>>

\* The transport sends the call with its metadata.
Send(c) ==
    /\ rpc[c].st = "authorized"
    /\ wire' = wire \cup {[cc |-> rpc[c].cc, secure |-> ConnOf(rpc[c].cc).secure,
                           md |-> rpc[c].md]}
    /\ rpc' = [rpc EXCEPT ![c].st = "sent"]
    /\ UNCHANGED <<zitadel, opts, phase, client, err, calls, conns, tsCur, tsCalls>>

\* The token source replaces its token (expiry, refresh).
Refresh ==
    /\ phase = "built"
    /\ \E cn \in conns : cn.perRPC[1].tokenSource # nil
    /\ tsCur < MaxRefresh
    /\ tsCur' = tsCur + 1
    /\ UNCHANGED <<zitadel, opts, phase, client, err, calls, conns, tsCalls, rpc, wire>>

Next ==
    \/ Build
    \/ \E c \in CallIds : Invoke(c)
    \/ \E c \in CallIds : GetMetadata(c)
    \/ \E c \in CallIds : Send(c)
    \/ Refresh

NextBuild == Build

Spec == Init /\ [][Next]_vars
SpecBuild == InitBuild /\ [][NextBuild]_vars

----------------------------------------------------------------------------
\* Properties of construction (checked under SpecBuild).

CallsOf(fn) == SelectSeq(calls, LAMBDA e : e.fn = fn)
Invoked(fn) == CallsOf(fn) # <<>>
AuthOpts == SelectSeq(opts, LAMBDA o : o.kind = "WithAuth")
ExtraOpts == SelectSeq(opts, LAMBDA o : o.kind = "WithGRPCDialOptions")

\* The arguments of the WithGRPCDialOptions options, concatenated in order.
RECURSIVE Flatten(_)
Flatten(ss) ==
    IF ss = <<>> THEN <<>>
    ELSE Flatten(SubSeq(ss, 1, Len(ss) - 1)) \o ss[Len(ss)].opts

\* C1: when the token-source initializer returns an error, New returns no
\* client and exactly that error, and neither transportCredentials nor
\* DialContext is invoked.
C1_InitErrorFailsFast ==
    \A i \in 1..Len(calls) :
        (calls[i].fn = "initTokenSource" /\ calls[i].err # nil) =>
            /\ phase = "failed"
            /\ client = nil
            /\ err = calls[i].err
            /\ conns = {}
            /\ ~Invoked("transportCredentials")
            /\ ~Invoked("DialContext")

C1_Witness ==
    /\ phase = "failed"
    /\ Len(opts) = 3
    /\ calls # <<>>
    /\ calls[1].fn = "initTokenSource"
    /\ err = InitErr([id |-> "i2"])

\* C2: a successful New opens exactly one connection with exactly one
\* credential provider, and each of the 14 accessors returns a non-nil stub
\* bound to that connection.
C2_OneSharedConnection ==
    phase = "built" =>
        /\ Cardinality(conns) = 1
        /\ Len(CallsOf("DialContext")) = 1
        /\ \A cn \in conns :
              /\ Len(cn.perRPC) = 1
              /\ Cardinality(DOMAIN Accessors(client)) = 14
              /\ \A s \in DOMAIN Accessors(client) :
                    /\ Accessors(client)[s] # nil
                    /\ Accessors(client)[s].cc = cn.id

C2_Witness ==
    /\ phase = "built"
    /\ Cardinality({Accessors(client)[s].cc : s \in Services}) = 1
    /\ \E cn \in conns : OIDCServiceV2(client).cc = cn.id /\ SystemService(client).cc = cn.id

\* C3: the options handed to the dial are the transport credentials, the
\* per-RPC credentials, then the arguments of every WithGRPCDialOptions in
\* application order, wherever WithAuth options are interleaved.
C3_DialOptionOrder ==
    \A i \in 1..Len(calls) :
        calls[i].fn = "DialContext" =>
            LET d == calls[i].args[2]
            IN /\ Len(d) = 2 + Len(Flatten(ExtraOpts))
               /\ d[1].kind = "WithTransportCredentials"
               /\ d[2].kind = "WithPerRPCCredentials"
               /\ SubSeq(d, 3, Len(d)) = Flatten(ExtraOpts)

C3_Witness ==
    /\ Invoked("DialContext")
    /\ Len(opts) = 3
    /\ opts[1] = [kind |-> "WithGRPCDialOptions", opts |-> <<CustomDialOption("A")>>]
    /\ opts[2].kind = "WithAuth"
    /\ opts[3] = [kind |-> "WithGRPCDialOptions", opts |-> <<CustomDialOption("B")>>]
    /\ SubSeq(CallsOf("DialContext")[1].args[2], 3, 4)
         = <<CustomDialOption("A"), CustomDialOption("B")>>

\* C4: of several WithAuth options only the last one's initializer is kept:
\* New invokes it exactly once, with the endpoint's origin, invokes no
\* earlier one, and invokes none when no WithAuth was supplied.
C4_LastAuthWins ==
    phase # "init" =>
        IF AuthOpts = <<>>
        THEN ~Invoked("initTokenSource")
        ELSE /\ Len(CallsOf("initTokenSource")) = 1
             /\ CallsOf("initTokenSource")[1].args
                  = <<AuthOpts[Len(AuthOpts)].initTokenSource.id, Origin(zitadel)>>

C4_Witness ==
    /\ phase # "init"
    /\ Len(AuthOpts) = 2
    /\ AuthOpts[1].initTokenSource.id = "i1"
    /\ AuthOpts[2].initTokenSource.id = "i2"
    /\ CallsOf("initTokenSource")[1].args[1] = "i2"

\* C8: construction is all-or-nothing: a failing transportCredentials or
\* DialContext gives no client and that step's own error; each step runs at
\* most once, none runs after the failing one, and no client comes out of a
\* failure, in particular none that lost its token source.
C8_AllOrNothing ==
    /\ \A i \in 1..Len(calls) :
          calls[i].err # nil =>
              /\ i = Len(calls)
              /\ phase = "failed"
              /\ client = nil
              /\ conns = {}
              /\ err = calls[i].err
    /\ \A fn \in {"initTokenSource", "transportCredentials", "DialContext"} :
          Len(CallsOf(fn)) <= 1
    /\ phase = "failed" => client = nil /\ err # nil /\ conns = {}
    /\ phase = "built" =>
          /\ client # nil /\ err = nil
          /\ AuthOpts # <<>> => \A cn \in conns : cn.perRPC[1].tokenSource # nil

C8_Witness ==
    /\ phase = "failed"
    /\ AuthOpts # <<>>
    /\ Len(calls) = 3
    /\ calls[3].fn = "DialContext"
    /\ err = DialErr

\* C7: the credential provider New attaches requires transport security
\* exactly when the endpoint is TLS-enabled, the flag the transport
\* credentials were built from, with or without a token source.
C7_RequiresTLSIffEndpointTLS ==
    /\ \A i \in 1..Len(calls) :
          /\ calls[i].fn = "transportCredentials" => calls[i].args[2] = zitadel.tls
          /\ calls[i].fn = "DialContext" =>
                LET d == calls[i].args[2]
                IN /\ d[1].creds.secure = zitadel.tls
                   /\ RequiresTransportSecurity(d[2].creds) = zitadel.tls
    /\ \A cn \in conns : RequiresTransportSecurity(cn.perRPC[1]) = zitadel.tls

C7_Witness ==
    /\ phase = "built"
    /\ ~zitadel.tls
    /\ AuthOpts # <<>>
    /\ \E cn \in conns :
          cn.perRPC[1].tokenSource # nil /\ ~RequiresTransportSecurity(cn.perRPC[1])

----------------------------------------------------------------------------
\* Properties of the remote calls (checked under Spec).

Past(c) == rpc[c].st \in {"authorized", "failed", "sent"}
HasBearer(md) == "authorization" \in DOMAIN md /\ md["authorization"][1] = "Bearer"

\* The token the configured token source holds right now.
CurrentAccessToken == <<AuthOpts[Len(AuthOpts)].initTokenSource.id, tsCur>>

\* C5: with a token source, every GetRequestMetadata call invokes the token
\* source anew and, when that succeeds, returns exactly the entry
\* authorization -> "Bearer " + the token issued for this call, which is the
\* token source's current one, never an earlier one.
C5_FreshBearerToken ==
    [][\A c \in CallIds :
          (AuthOpts # <<>> /\ rpc[c].st = "started" /\ rpc'[c].st # "started") =>
              /\ tsCalls' = tsCalls + 1
              /\ rpc'[c].st = "failed" => rpc'[c].issued.err # nil
              /\ rpc'[c].issued.err = nil =>
                    /\ rpc'[c].st = "authorized"
                    /\ rpc'[c].issued.token.accessToken = CurrentAccessToken
                    /\ DOMAIN rpc'[c].md = {"authorization"}
                    /\ rpc'[c].md["authorization"] = <<"Bearer", " ", CurrentAccessToken>>]_vars

C5_Witness ==
    /\ tsCur = 1
    /\ tsCalls = 2
    /\ rpc[1].st = "sent"
    /\ rpc[1].md["authorization"] = <<"Bearer", " ", <<"i1", 0>>>>
    /\ rpc[2].st = "authorized"
    /\ rpc[2].md["authorization"] = <<"Bearer", " ", <<"i1", 1>>>>

\* C6: with no WithAuth option, GetRequestMetadata returns an empty mapping
\* and no error on every call, whether the endpoint is TLS-enabled or not.
C6_NoAuthEmptyMetadata ==
    (phase = "built" /\ AuthOpts = <<>>) =>
        /\ tsCalls = 0
        /\ \A c \in CallIds :
              Past(c) =>
                  /\ rpc[c].st # "failed"
                  /\ rpc[c].err = nil
                  /\ DOMAIN rpc[c].md = {}
        /\ \A w \in wire : DOMAIN w.md = {}

C6_Witness ==
    /\ phase = "built"
    /\ AuthOpts = <<>>
    /\ ~zitadel.tls
    /\ rpc[1].st = "authorized" /\ rpc[1].md = EmptyMD /\ rpc[1].err = nil
    /\ rpc[2].st = "sent"

\* C9 as stated: bearer metadata is never sent on an unencrypted connection.
C9_NeverBearerInClear ==
    \A w \in wire : HasBearer(w.md) => w.secure

\* C9, amended: for a TLS-enabled endpoint bearer metadata is never sent on
\* an unencrypted connection; it is sent in clear only when the endpoint's
\* TLS flag is false, where the provider does not require transport security.
C9_BearerInClearOnlyWithoutTLS ==
    \A w \in wire :
        /\ (HasBearer(w.md) /\ zitadel.tls) => w.secure
        /\ (HasBearer(w.md) /\ ~w.secure) =>
              /\ ~zitadel.tls
              /\ \A cn \in conns : ~RequiresTransportSecurity(cn.perRPC[1])

C9_Witness ==
    /\ zitadel.tls
    /\ \E w \in wire : HasBearer(w.md) /\ w.secure

\* C10: under any interleaving of calls on one client, a token-source failure
\* in one call's GetRequestMetadata is that call's error only: connection,
\* client and the other calls are untouched, and every call whose own
\* token-source invocation succeeds carries its correct metadata.
C10_CallFailureIsLocal ==
    /\ [][\A c \in CallIds :
            (rpc[c].st = "started" /\ rpc'[c].st = "failed") =>
                /\ rpc'[c].err = TokenErr
                /\ conns' = conns
                /\ client' = client
                /\ \A d \in CallIds \ {c} : rpc'[d] = rpc[d]]_vars
    /\ [](\A c \in CallIds :
            (AuthOpts # <<>> /\ Past(c) /\ rpc[c].issued.err = nil) =>
                /\ rpc[c].st \in {"authorized", "sent"}
                /\ rpc[c].issued.token # nil
                /\ rpc[c].md = AuthMD(rpc[c].issued.token))

C10_Witness ==
    /\ rpc[1].st = "failed"
    /\ rpc[1].err = TokenErr
    /\ rpc[2].st = "sent"
    /\ rpc[2].md = AuthMD(rpc[2].issued.token)
    /\ tsCalls = 2

====
